---- MODULE Spec2Model ----
(***************************************************************************)
(* go2type: the type-resolution engine of src/main.go (parsePackage,       *)
(* resolveNestedAndExternalTypes, filterUsedTypes and their helpers) and   *)
(* the parsing of handler comments (parseHandlerComments and its helpers). *)
(*                                                                         *)
(* Strings.  A Go string is modelled as a sequence of tokens; a token is   *)
(* either an identifier or one of the separators the code searches for     *)
(* (".", " ", "/", "Array<", ">", ...).  The string functions of the code  *)
(* (strings.Split, TrimPrefix, TrimSuffix, Contains, HasPrefix) are        *)
(* computed on the token sequence.  Map keys (registry names, mapping      *)
(* keys, import aliases) are flat strings: the concatenation of the        *)
(* tokens.                                                                 *)
(***************************************************************************)
EXTENDS Integers, Sequences, FiniteSets, TLC

(***************************************************************************)
(* String helpers                                                          *)
(***************************************************************************)
RECURSIVE Flat(_)
\* the Go string a token sequence stands for
Flat(s) == IF s = <<>> THEN "" ELSE Head(s) \o Flat(Tail(s))

\* strings.Contains(s, tok)
Contains(s, tok) == \E i \in 1..Len(s) : s[i] = tok

\* index of the first occurrence of tok in s, 0 if there is none
IndexOf(s, tok) ==
    IF Contains(s, tok)
    THEN CHOOSE i \in 1..Len(s) : s[i] = tok /\ \A j \in 1..(i-1) : s[j] # tok
    ELSE 0

\* index of the last occurrence of tok in s, 0 if there is none
LastIndexOf(s, tok) ==
    IF Contains(s, tok)
    THEN CHOOSE i \in 1..Len(s) : s[i] = tok /\ \A j \in (i+1)..Len(s) : s[j] # tok
    ELSE 0

\* strings.Split(s, tok)[0]
SplitFirst(s, tok) ==
    IF Contains(s, tok) THEN SubSeq(s, 1, IndexOf(s, tok) - 1) ELSE s

\* the rest of s after the first tok (empty if there is no tok)
AfterFirst(s, tok) ==
    IF Contains(s, tok) THEN SubSeq(s, IndexOf(s, tok) + 1, Len(s)) ELSE <<>>

\* strings.Split(s, tok)[1], for a string that contains tok
SplitSecond(s, tok) == SplitFirst(AfterFirst(s, tok), tok)

\* the last element of strings.Split(s, tok)
SplitLast(s, tok) ==
    IF Contains(s, tok) THEN SubSeq(s, LastIndexOf(s, tok) + 1, Len(s)) ELSE s

\* strings.TrimPrefix(s, tok)
TrimPrefix(s, tok) == IF Len(s) > 0 /\ s[1] = tok THEN Tail(s) ELSE s

\* strings.TrimSuffix(s, tok)
TrimSuffix(s, tok) ==
    IF Len(s) > 0 /\ s[Len(s)] = tok THEN SubSeq(s, 1, Len(s) - 1) ELSE s

\* strings.HasPrefix(s, p)
HasPrefix(s, p) == Len(s) >= Len(p) /\ SubSeq(s, 1, Len(p)) = p

\* strings.TrimPrefix(s, p) for a prefix p of several tokens
TrimPrefixSeq(s, p) == IF HasPrefix(s, p) THEN SubSeq(s, Len(p) + 1, Len(s)) ELSE s

\* fmt.Sprintf("Array<%s>", e)
ArrayOf(e) == <<"Array<">> \o e \o <<">">>

\* the suffix parseType appends to the type of an optional field
NullSuffix == <<" ", "|", " ", "null">>

\* fmt.Sprintf("{ [key: %s]: %s }", k, v)
MapOf(k, v) == <<"{", " ", "[key:", " ">> \o k \o <<"]:", " ">> \o v \o <<" ", "}">>

\* strings.Split(strings.TrimSuffix(strings.TrimPrefix(s, "Array<"), ">"), " ")[0]
StripName(s) == SplitFirst(TrimSuffix(TrimPrefix(s, "Array<"), ">"), " ")

(***************************************************************************)
(* Type mapping table                                                      *)
(***************************************************************************)
TsNumber == <<"number">>
TsString == <<"string">>
TsDate == <<"Date">>
TsDateTime == <<"string", " ", "/*", " ", "date-time", " ", "*/">>
TsUuid == <<"string", " ", "/*", " ", "uuid", " ", "*/">>

defaultTypeMappings ==
    [k \in {"int", "int8", "int16", "int32", "int64", "uint", "uint8", "uint16",
            "uint32", "uint64", "float32", "float64", "byte", "rune"} |-> TsNumber]
    @@ ("string" :> TsString)
    @@ ("bool" :> <<"boolean">>)
    @@ ("error" :> <<"Error">>)
    @@ ("uuid.UUID" :> TsUuid)
    @@ ("pgtypes.Timestamptz" :> TsDateTime)
    @@ ("types.Interface" :> <<"any">>)

\* parsePackage, the merge of the mapping tables: defaults, then the custom
\* mappings, then the date-mode entries (each assignment overwrites)
MergeMappings(custom, useDateObject) ==
    (IF useDateObject
     THEN ("time.Time" :> TsDate) @@ ("pgtype.Timestamptz" :> TsDate)
     ELSE ("time.Time" :> TsDateTime))
    @@ custom
    @@ defaultTypeMappings

(***************************************************************************)
(* Field type expressions of the scanned source (go/ast)                   *)
(***************************************************************************)
Ident(n) == [k |-> "Ident", name |-> n]
Sel(x, s) == [k |-> "Sel", x |-> x, sel |-> s]
Star(e) == [k |-> "Star", e |-> e]
ArrayT(e) == [k |-> "Array", e |-> e]
MapT(key, val) == [k |-> "Map", key |-> key, val |-> val]
FuncT == [k |-> "Func"]

RECURSIVE parseFieldType(_, _)
\* parseFieldType: (type, trueType, isOptional, isArray)
parseFieldType(expr, typeMappings) ==
    CASE expr.k = "Ident" ->
            IF expr.name \in DOMAIN typeMappings
            THEN [type |-> typeMappings[expr.name], trueType |-> <<expr.name>>,
                  isOptional |-> FALSE, isArray |-> FALSE]
            ELSE [type |-> <<expr.name>>, trueType |-> <<expr.name>>,
                  isOptional |-> FALSE, isArray |-> FALSE]
      [] expr.k = "Sel" ->
            LET fullType == <<expr.x, ".", expr.sel>> IN
            IF Flat(fullType) \in DOMAIN typeMappings
            THEN [type |-> typeMappings[Flat(fullType)], trueType |-> fullType,
                  isOptional |-> FALSE, isArray |-> FALSE]
            ELSE [type |-> fullType, trueType |-> fullType,
                  isOptional |-> FALSE, isArray |-> FALSE]
      [] expr.k = "Star" ->
            LET inner == parseFieldType(expr.e, typeMappings) IN
            [type |-> inner.type, trueType |-> inner.trueType,
             isOptional |-> TRUE, isArray |-> FALSE]
      [] expr.k = "Array" ->
            LET elem == parseFieldType(expr.e, typeMappings) IN
            [type |-> ArrayOf(elem.type), trueType |-> elem.trueType,
             isOptional |-> FALSE, isArray |-> TRUE]
      [] expr.k = "Map" ->
            LET key == parseFieldType(expr.key, typeMappings)
                val == parseFieldType(expr.val, typeMappings) IN
            [type |-> MapOf(key.type, val.type), trueType |-> <<"map">>,
             isOptional |-> FALSE, isArray |-> FALSE]
      [] OTHER ->
            [type |-> <<"unknown">>, trueType |-> <<"unknown">>,
             isOptional |-> FALSE, isArray |-> FALSE]

\* parseType, the body of the loop: the FieldInfo of one field declaration
\* [names, expr, tag]; decl records the declaration the field came from
parseField(fd, typeMappings) ==
    LET r == parseFieldType(fd.expr, typeMappings)
        jsonName == fd.tag
        typescriptFieldName == IF jsonName # "" THEN jsonName ELSE fd.names[1]
    IN [PackageName |-> r.trueType,
        Name |-> typescriptFieldName,
        Type |-> IF r.isOptional THEN r.type \o NullSuffix ELSE r.type,
        JSONName |-> jsonName,
        IsOptional |-> r.isOptional,
        IsArray |-> r.isArray,
        decl |-> fd.expr]

RECURSIVE parseTypeFields(_, _)
\* parseType: the fields of a struct declaration, embedded fields skipped
parseTypeFields(fds, typeMappings) ==
    IF fds = <<>> THEN <<>>
    ELSE IF Len(Head(fds).names) > 0
         THEN <<parseField(Head(fds), typeMappings)>> \o parseTypeFields(Tail(fds), typeMappings)
         ELSE parseTypeFields(Tail(fds), typeMappings)

(***************************************************************************)
(* Types of loaded packages (go/types), as packages.Load returns them      *)
(***************************************************************************)
Basic(n) == [k |-> "Basic", name |-> n]
Pointer(e) == [k |-> "Pointer", e |-> e]
Slice(e) == [k |-> "Slice", e |-> e]
MapType(key, val) == [k |-> "Map", key |-> key, val |-> val]
Interface == [k |-> "Interface"]
\* a defined type; path is the import path of its package (a token sequence)
Named(path, n) == [k |-> "Named", path |-> path, name |-> n]
StructType(fields) == [k |-> "Struct", fields |-> fields]
ArrayType(e) == [k |-> "GoArray", e |-> e]

\* ExtractAfterLastSlash
ExtractAfterLastSlash(s) == SplitLast(s, "/")

\* types.Type.String() of a defined type: the package path, a dot, the name
TypeString(t) == t.path \o <<".", t.name>>

RECURSIVE parseFieldTypeFromTypes(_, _)
\* parseFieldTypeFromTypes: (fieldType, packageName, isOptional)
parseFieldTypeFromTypes(t, typeMappings) ==
    CASE t.k = "Basic" ->
            IF t.name \in DOMAIN defaultTypeMappings
            THEN [type |-> defaultTypeMappings[t.name], packageName |-> <<t.name>>, isOptional |-> FALSE]
            ELSE [type |-> <<t.name>>, packageName |-> <<t.name>>, isOptional |-> FALSE]
      [] t.k = "Pointer" ->
            LET elem == parseFieldTypeFromTypes(t.e, typeMappings) IN
            [type |-> elem.type \o NullSuffix, packageName |-> elem.packageName, isOptional |-> TRUE]
      [] t.k = "Slice" ->
            LET elem == parseFieldTypeFromTypes(t.e, typeMappings) IN
            [type |-> ArrayOf(elem.type), packageName |-> elem.packageName, isOptional |-> TRUE]
      [] t.k = "Map" ->
            LET key == parseFieldTypeFromTypes(t.key, typeMappings)
                val == parseFieldTypeFromTypes(t.val, typeMappings) IN
            [type |-> MapOf(key.type, val.type), packageName |-> <<"map">>, isOptional |-> FALSE]
      [] t.k = "Interface" ->
            [type |-> <<"any">>, packageName |-> <<"any">>, isOptional |-> FALSE]
      [] OTHER ->
            \* a defined type prints as path.Name; any other type (an anonymous
            \* struct, a channel, ...) prints as text that no mapping has as key
            LET typeName == IF t.k = "Named" THEN ExtractAfterLastSlash(TypeString(t))
                            ELSE <<"struct{...}">> IN
            IF Flat(typeName) \in DOMAIN typeMappings
            THEN [type |-> typeMappings[Flat(typeName)], packageName |-> typeName, isOptional |-> FALSE]
            ELSE [type |-> <<"unknown">>, packageName |-> <<"unknown">>, isOptional |-> FALSE]

\* the error value of the functions that return (TypeInfo, error)
Failed == [err |-> TRUE]

\* parseTypeObject, the FieldInfo of one field [name, type, tag] of a struct
typesField(f, typeMappings) ==
    LET r == parseFieldTypeFromTypes(f.type, typeMappings)
        jsonName == IF f.tag = "" THEN f.name ELSE f.tag
    IN [PackageName |-> r.packageName,
        Name |-> jsonName,
        Type |-> r.type,
        JSONName |-> jsonName,
        IsOptional |-> r.isOptional,
        IsArray |-> FALSE,
        decl |-> f.type]

\* parseTypeObject: obj is [name, path, underlying]; origin records the
\* declaration the TypeInfo was built from
parseTypeObject(obj, typeMappings) ==
    CASE obj.underlying.k = "Struct" ->
            [err |-> FALSE, Name |-> obj.name, FullName |-> obj.name,
             origin |-> [kind |-> "internal", path |-> Flat(obj.path), name |-> obj.name],
             Fields |-> [i \in 1..Len(obj.underlying.fields) |->
                            typesField(obj.underlying.fields[i], typeMappings)]]
      [] obj.underlying.k \in {"Basic", "Slice", "Map", "Interface"} ->
            LET r == parseFieldTypeFromTypes(Named(obj.path, obj.name), typeMappings) IN
            [err |-> FALSE, Name |-> obj.name, FullName |-> obj.name,
             origin |-> [kind |-> "internal", path |-> Flat(obj.path), name |-> obj.name],
             Fields |-> << [PackageName |-> r.packageName,
                            Name |-> obj.name,
                            Type |-> r.type,
                            JSONName |-> obj.name,
                            IsOptional |-> r.isOptional,
                            IsArray |-> FALSE,
                            decl |-> Named(obj.path, obj.name)] >>]
      [] OTHER -> Failed

(***************************************************************************)
(* The module and the packages the loader (packages.Load) can see          *)
(***************************************************************************)
\* getModuleInfo: the module path of the scanned package
ModuleName == <<"github.com", "/", "example", "/", "testmodule">>

PathAlpha == ModuleName \o <<"/", "alpha">>
PathBeta == ModuleName \o <<"/", "beta">>
PathTime == <<"time">>
PathPq == <<"github.com", "/", "lib", "/", "pq">>
PathUuid == <<"github.com", "/", "google", "/", "uuid">>
\* a package of another module, whose path begins with the text of ModuleName
PathSibling == ModuleName \o <<"2", "/", "gamma">>

Obj(path, n, underlying) == [name |-> n, path |-> path, underlying |-> underlying]
Fld(n, t, tag) == [name |-> n, type |-> t, tag |-> tag]

AlphaInfoFields ==
    << Fld("Email", Basic("string"), "email"),
       Fld("Age", Pointer(Basic("int")), "age"),
       Fld("Tags", Slice(Basic("string")), "tags"),
       Fld("Detail", Named(PathAlpha, "Detail"), "detail"),
       Fld("ID", Pointer(Named(PathUuid, "UUID")), "id") >>

BetaInfoFields == << Fld("Score", Basic("int"), "score") >>

\* the packages on disk, by import path: what packages.Load finds
GoPackages ==
    (Flat(PathAlpha) :> [PkgPath |-> PathAlpha,
        scope |-> ("Info" :> Obj(PathAlpha, "Info", StructType(AlphaInfoFields)))
               @@ ("Detail" :> Obj(PathAlpha, "Detail",
                        StructType(<< Fld("Note", Basic("string"), "") >>)))])
    @@ (Flat(PathBeta) :> [PkgPath |-> PathBeta,
        scope |-> ("Info" :> Obj(PathBeta, "Info", StructType(BetaInfoFields)))])
    @@ (Flat(PathTime) :> [PkgPath |-> PathTime,
        scope |-> ("Time" :> Obj(PathTime, "Time", StructType(<<>>)))])
    @@ (Flat(PathPq) :> [PkgPath |-> PathPq,
        scope |-> ("StringArray" :> Obj(PathPq, "StringArray", Slice(Basic("string"))))])
    @@ (Flat(PathUuid) :> [PkgPath |-> PathUuid,
        scope |-> ("UUID" :> Obj(PathUuid, "UUID", ArrayType(Basic("byte"))))])
    @@ (Flat(PathSibling) :> [PkgPath |-> PathSibling,
        scope |-> ("Info" :> Obj(PathSibling, "Info",
                        StructType(<< Fld("Level", Basic("int"), "") >>)))])

\* the directories of the module that hold a package, relative to its root
ModuleDirs == ("alpha" :> Flat(PathAlpha)) @@ ("beta" :> Flat(PathBeta))

\* parseExternalType / parseInternalType: typeName = strings.TrimPrefix(typeName, "*"),
\* then cut at the first space
CleanTypeName(typeName) == SplitFirst(TrimPrefix(typeName, "*"), " ")

\* isExternalPackage := !strings.HasPrefix(path, moduleName)
isExternalPackage(path, moduleName) == ~HasPrefix(path, moduleName)

\* parseExternalType; broken is the set of import paths whose load fails
parseExternalType(importPath, typeName, typeMappings, moduleName, fullTypeName, broken) ==
    IF Flat(importPath) \notin DOMAIN GoPackages \/ Flat(importPath) \in broken
    THEN Failed
    ELSE LET pkg == GoPackages[Flat(importPath)]
             tn == Flat(CleanTypeName(typeName))
             mapped(m) == [err |-> FALSE, Name |-> tn, FullName |-> Flat(fullTypeName),
                           Fields |-> << [PackageName |-> fullTypeName,
                                          Name |-> tn,
                                          Type |-> m,
                                          JSONName |-> tn,
                                          IsOptional |-> FALSE,
                                          IsArray |-> FALSE,
                                          decl |-> Named(importPath, tn)] >>]
         IN IF tn \notin DOMAIN pkg.scope THEN Failed
            ELSE IF isExternalPackage(pkg.PkgPath, moduleName)
                 THEN IF Flat(fullTypeName) \in DOMAIN typeMappings
                      THEN mapped(typeMappings[Flat(fullTypeName)])
                      ELSE IF Flat(fullTypeName) \in DOMAIN defaultTypeMappings
                           THEN mapped(defaultTypeMappings[Flat(fullTypeName)])
                           ELSE Failed
                 ELSE parseTypeObject(pkg.scope[tn], typeMappings)

\* parseInternalType: the package is loaded from the directory
\* filepath.Join(modulePath, strings.TrimPrefix(importPath, moduleName))
parseInternalType(importPath, typeName, typeMappings, moduleName, broken) ==
    LET dir == Flat(TrimPrefix(TrimPrefixSeq(importPath, moduleName), "/"))
        tn == Flat(CleanTypeName(typeName))
    IN IF dir \notin DOMAIN ModuleDirs \/ ModuleDirs[dir] \in broken
       THEN Failed
       ELSE LET pkg == GoPackages[ModuleDirs[dir]] IN
            IF tn \notin DOMAIN pkg.scope THEN Failed
            ELSE parseTypeObject(pkg.scope[tn], typeMappings)

(***************************************************************************)
(* Handler comments: parseHandlerComments and its helpers                  *)
(*                                                                         *)
(* The texts these functions work on are token sequences too: a token is   *)
(* one character, a directive marker ("@Method", ...), or a word (a run of *)
(* letters that the code never looks into, beginning with an upper-case    *)
(* letter unless the tables below list it).                                *)
(***************************************************************************)
RECURSIVE Split(_, _)
\* strings.Split(s, tok): the sequence of the parts of s between the toks
Split(s, tok) ==
    IF Contains(s, tok)
    THEN <<SplitFirst(s, tok)>> \o Split(AfterFirst(s, tok), tok)
    ELSE <<s>>

\* the characters strings.TrimSpace removes
Space == {" ", "\n", "\t"}

RECURSIVE TrimLeft(_)
TrimLeft(s) == IF s # <<>> /\ Head(s) \in Space THEN TrimLeft(Tail(s)) ELSE s

RECURSIVE TrimRight(_)
TrimRight(s) ==
    IF s # <<>> /\ s[Len(s)] \in Space THEN TrimRight(SubSeq(s, 1, Len(s) - 1)) ELSE s

\* strings.TrimSpace(s)
TrimSpace(s) == TrimRight(TrimLeft(s))

\* strings.ToLower, token by token
ToLowerTok(c) ==
    CASE c = "X" -> "x"
      [] c = "K" -> "k"
      [] c = "G" -> "g"
      [] c = "Input" -> "input"
      [] c = "localStorage" -> "localstorage"
      [] c = "sessionStorage" -> "sessionstorage"
      [] OTHER -> c
ToLower(s) == [i \in 1..Len(s) |-> ToLowerTok(s[i])]

\* unicode.ToUpper of the first rune of a token
ToUpperTok(c) ==
    CASE c = "x" -> "X"
      [] c = "k" -> "K"
      [] c = "g" -> "G"
      [] c = "input" -> "Input"
      [] OTHER -> c

\* strings.ReplaceAll(s, old, new), for one-token old and new
ReplaceAll(s, old, new) == [i \in 1..Len(s) |-> IF s[i] = old THEN new ELSE s[i]]

\* the tokens made of the characters a-z, 0-9 and _ only
LowerAlnum ==
    {"x", "k", "g", "a", "_", "0", "1", "7", "input", "cookie",
     "localstorage", "sessionstorage"}
Digits == {"0", "1", "7"}

RECURSIVE RemoveUnsafe(_)
\* regexp.MustCompile("[^a-z0-9_]+").ReplaceAllString(s, "")
RemoveUnsafe(s) ==
    IF s = <<>> THEN <<>>
    ELSE IF Head(s) \in LowerAlnum THEN <<Head(s)>> \o RemoveUnsafe(Tail(s))
         ELSE RemoveUnsafe(Tail(s))

\* toTypescriptSafeHeader without the guard against a leading digit
toTypescriptSafeHeaderNoGuard(s) == RemoveUnsafe(ReplaceAll(ToLower(s), "-", "_"))

\* toTypescriptSafeHeader
toTypescriptSafeHeader(s) ==
    LET s1 == ToLower(s)
        s2 == ReplaceAll(s1, "-", "_")
        s3 == RemoveUnsafe(s2)
    IN IF Len(s3) > 0 /\ s3[1] \in Digits THEN <<"_">> \o s3 ELSE s3

\* parseHeaderDirective without the default storage key of a two-part directive
parseHeaderDirectiveNoDefault(directive) ==
    LET parts == Split(directive, ":") IN
    IF Len(parts) = 3
    THEN [HeaderKey |-> parts[2],
          SafeName |-> toTypescriptSafeHeader(parts[2]),
          Source |-> parts[1],
          StorageKey |-> parts[3]]
    ELSE IF Len(parts) = 2
         THEN [HeaderKey |-> parts[2],
               SafeName |-> toTypescriptSafeHeader(parts[2]),
               Source |-> parts[1],
               StorageKey |-> <<>>]
         ELSE [HeaderKey |-> directive,
               SafeName |-> toTypescriptSafeHeader(directive),
               Source |-> <<"input">>,
               StorageKey |-> <<>>]

\* parseHeaderDirective
parseHeaderDirective(directive) ==
    LET parts == Split(directive, ":") IN
    IF Len(parts) = 3
    THEN [HeaderKey |-> parts[2],
          SafeName |-> toTypescriptSafeHeader(parts[2]),
          Source |-> parts[1],
          StorageKey |-> parts[3]]
    ELSE IF Len(parts) = 2
         THEN [HeaderKey |-> parts[2],
               SafeName |-> toTypescriptSafeHeader(parts[2]),
               Source |-> parts[1],
               StorageKey |-> IF parts[1] # <<"input">> THEN parts[2] ELSE <<>>]
         ELSE [HeaderKey |-> directive,
               SafeName |-> toTypescriptSafeHeader(directive),
               Source |-> <<"input">>,
               StorageKey |-> <<>>]

\* formatHookName; r[0] of an empty name is an index out of range
formatHookName(name) ==
    LET n == TrimSuffix(name, "Handler") IN
    IF n = <<>> THEN [panic |-> TRUE]
    ELSE [panic |-> FALSE, name |-> <<ToUpperTok(n[1])>> \o Tail(n)]

RECURSIVE PathParams(_)
\* parseHandlerComments, the @Path case: the parts of the path that begin with
\* ":", without it
PathParams(parts) ==
    IF parts = <<>> THEN <<>>
    ELSE (IF Len(Head(parts)) > 0 /\ Head(parts)[1] = ":"
          THEN <<TrimPrefix(Head(parts), ":")>> ELSE <<>>)
         \o PathParams(Tail(parts))

\* the local variables of parseHandlerComments before the loop
NoDirectives ==
    [method |-> <<>>, path |-> <<>>, inputType |-> <<>>, outputType |-> <<>>,
     urlParams |-> <<>>, headers |-> <<>>]

\* strings.TrimSpace(strings.Split(text, marker)[1])
Value(text, marker) == TrimSpace(SplitSecond(text, marker))

\* parseHandlerComments, the body of the loop over fn.Doc.List: the switch
\* takes the first case whose marker the text contains
DirectiveStep(v, text) ==
    CASE Contains(text, "@Method") -> [v EXCEPT !.method = Value(text, "@Method")]
      [] Contains(text, "@Path") ->
            LET path == Value(text, "@Path") IN
            [v EXCEPT !.path = path,
                      !.urlParams = v.urlParams \o PathParams(Split(path, "/"))]
      [] Contains(text, "@Input") -> [v EXCEPT !.inputType = Value(text, "@Input")]
      [] Contains(text, "@Output") -> [v EXCEPT !.outputType = Value(text, "@Output")]
      [] Contains(text, "@Header") ->
            [v EXCEPT !.headers = Append(v.headers, parseHeaderDirective(Value(text, "@Header")))]
      [] OTHER -> v

RECURSIVE Directives(_, _)
\* parseHandlerComments, the loop over fn.Doc.List
Directives(v, list) ==
    IF list = <<>> THEN v ELSE Directives(DirectiveStep(v, Head(list)), Tail(list))

\* parseHandlerComments: fn is [name, doc]; the result is nil (no handler), a
\* handler, or a panic of formatHookName
parseHandlerComments(fn) ==
    LET v == Directives(NoDirectives, fn.doc) IN
    IF v.method # <<>> /\ v.path # <<>>
    THEN LET n == formatHookName(fn.name) IN
         IF n.panic THEN [kind |-> "panic"]
         ELSE [kind |-> "handler",
               h |-> [Name |-> Flat(n.name),
                      Method |-> v.method,
                      Path |-> v.path,
                      InputType |-> Flat(v.inputType),
                      OutputType |-> Flat(v.outputType),
                      URLParams |-> v.urlParams,
                      Headers |-> v.headers,
                      fn |-> fn]]
    ELSE [kind |-> "nil"]

(***************************************************************************)
(* Bounds                                                                  *)
(***************************************************************************)
\* the depth of recursion at which the goroutine stack is exhausted
MaxStack == 5

(***************************************************************************)
(* State                                                                   *)
(***************************************************************************)
VARIABLES
    input,        \* the arguments of parsePackage and the files of the directory
    pc,           \* where parsePackage is: parse, scan, resolve, filter, done (it
                  \* returned), error (it returned an error), overflow, panic
    scanned,      \* the files the scanning loop has handled
    importMap,    \* import alias -> import path
    registry,     \* TypeRegistry.Types: name -> TypeInfo
    heap,         \* the backing arrays of the Fields slices, by address
    handlers,     \* the handlers found so far
    visited,      \* the registry keys the resolution loop has produced
    stack,        \* the active calls of resolveNestedAndExternalTypes
    queue,        \* filterUsedTypes: the queue
    usedTypeSet,  \* filterUsedTypes: the used type set
    usedTypes,    \* the names of the types parsePackage returns
    gen           \* generate: where it is, the packages it has attempted, the
                  \* output files it has written, its return value

vars == <<input, pc, scanned, importMap, registry, heap, handlers, visited, stack,
          queue, usedTypeSet, usedTypes, gen>>

\* parsePackage: typeMappings
typeMappings == MergeMappings(input.custom, input.useDateObject)

\* TypeRegistry.AddType
AddType(reg, t) == (t.Name :> t) @@ reg

\* TypeRegistry.GetType: ok
GetType(reg, name) == name \in DOMAIN reg

\* t.Fields of a TypeInfo: the slice shares its backing array with every copy
FieldsOf(h, t) == h[t.Fields]

\* cases.Title(language.Und, cases.NoLower).String(s), on the package
\* qualifiers of the model
Title(s) ==
    CASE s = "alpha" -> "Alpha"
      [] s = "beta" -> "Beta"
      [] s = "gamma" -> "Gamma"
      [] s = "a" -> "A"
      [] s = "m" -> "M"
      [] s = "models" -> "Models"
      [] s = "time" -> "Time"
      [] s = "pq" -> "Pq"
      [] s = "uuid" -> "Uuid"
      [] s = "ghost" -> "Ghost"

\* parsePackage, the import loop: the key an import is stored under
ImportKey(imp) == IF imp.name # "" THEN imp.name ELSE Flat(SplitLast(imp.path, "/"))

RECURSIVE AddImports(_, _)
AddImports(m, imps) ==
    IF imps = <<>> THEN m
    ELSE AddImports((ImportKey(Head(imps)) :> Head(imps).path) @@ m, Tail(imps))

RECURSIVE AddStructs(_, _, _, _)
\* parsePackage, ast.Inspect: every struct declaration of the file is parsed
\* and added; the result is the registry and the heap
AddStructs(reg, h, fid, structs) ==
    IF structs = <<>> THEN [reg |-> reg, heap |-> h]
    ELSE LET d == Head(structs)
             t == [Name |-> d.name, FullName |-> d.name, Fields |-> Len(h) + 1,
                   origin |-> [kind |-> "local", file |-> fid, name |-> d.name]]
         IN AddStructs(AddType(reg, t),
                       Append(h, parseTypeFields(d.fields, typeMappings)),
                       fid, Tail(structs))

\* the registry keys that exist when the resolution loop starts: the names of
\* the struct declarations scanned
LoopKeys ==
    UNION { { input.files[f].structs[i].name : i \in DOMAIN input.files[f].structs } :
            f \in DOMAIN input.files }

RECURSIVE ParseFuncs(_)
\* parsePackage, ast.Inspect: every documented function is given to
\* parseHandlerComments, and its handler (if any) appended; a panic ends the
\* program
ParseFuncs(fns) ==
    IF fns = <<>> THEN [panic |-> FALSE, handlers |-> <<>>]
    ELSE LET fn == Head(fns)
             r == IF fn.doc = <<>> THEN [kind |-> "nil"] ELSE parseHandlerComments(fn)
             rest == ParseFuncs(Tail(fns))
         IN IF r.kind = "panic" THEN [panic |-> TRUE, handlers |-> <<>>]
            ELSE [panic |-> rest.panic,
                  handlers |-> (IF r.kind = "handler" THEN <<r.h>> ELSE <<>>) \o rest.handlers]

\* generate is not running: parsePackage is looked at on its own
NotRunning == [pc |-> "idle"]

\* the loop left at the package that failed
StopAtFailure(g) == [g EXCEPT !.i = Len(input.packages) + 1]

\* generate, `continue` after an error: the loop goes on with the next package
Continue(g) == [g EXCEPT !.i = @ + 1]

(***************************************************************************)
(* parsePackage: parser.ParseDir                                           *)
(***************************************************************************)
\* parser.ParseDir returns the first parse error next to the files that did
\* parse; parsePackage returns that error
ParseDir ==
    /\ pc = "parse"
    /\ pc' = IF \E f \in DOMAIN input.files : input.files[f].bad THEN "error"
             ELSE IF DOMAIN input.files = {} THEN "resolve"
             ELSE "scan"
    /\ UNCHANGED <<gen, input, scanned, importMap, registry, heap, handlers, visited, stack,
                   queue, usedTypeSet, usedTypes>>

(***************************************************************************)
(* parsePackage: the scanning loop                                         *)
(***************************************************************************)
\* one iteration of `for _, file := range pkg.Files` (map order): the imports
\* of the file, then its struct declarations and its handlers
ScanFile(f) ==
    /\ pc = "scan"
    /\ f \in DOMAIN input.files \ scanned
    /\ LET file == input.files[f]
           r == AddStructs(registry, heap, f, file.structs)
           found == ParseFuncs(file.funcs)
       IN /\ importMap' = AddImports(importMap, file.imports)
          /\ registry' = r.reg
          /\ heap' = r.heap
          /\ handlers' = handlers \o found.handlers
          /\ pc' = IF found.panic THEN "panic"
                   ELSE IF scanned \cup {f} = DOMAIN input.files THEN "resolve" ELSE "scan"
    /\ scanned' = scanned \cup {f}
    /\ UNCHANGED <<gen, input, visited, stack, queue, usedTypeSet, usedTypes>>

(***************************************************************************)
(* parsePackage: the resolution loop, and resolveNestedAndExternalTypes    *)
(***************************************************************************)
\* one iteration of `for _, t := range registry.Types`: a key not produced
\* yet; t is a copy of the entry, its Fields share the backing array
LoopVisit(n) ==
    /\ pc = "resolve"
    /\ stack = <<>>
    /\ n \in DOMAIN registry \ visited
    /\ visited' = visited \cup {n}
    /\ stack' = << [t |-> registry[n], i |-> 1] >>
    /\ UNCHANGED <<gen, input, pc, scanned, importMap, registry, heap, handlers,
                   queue, usedTypeSet, usedTypes>>

\* the frame on top of the stack, and the stack with its index advanced
Top == stack[Len(stack)]
Advance == [stack EXCEPT ![Len(stack)].i = @ + 1]

\* the loop abandoned at the field that failed: the rest of the fields of the
\* type are left alone
SkipRest == [stack EXCEPT ![Len(stack)].i = Len(FieldsOf(heap, Top.t)) + 1]

\* `continue` after a warning: the loop goes on with the next field
SkipField == Advance

\* resolveNestedAndExternalTypes, a field whose PackageName contains "."
ResolveQualified ==
    /\ pc = "resolve"
    /\ stack # <<>>
    /\ Top.i <= Len(FieldsOf(heap, Top.t))
    /\ LET arr == Top.t.Fields
           i == Top.i
           field == heap[arr][i]
           packageName == Flat(SplitFirst(field.PackageName, "."))
           typeName == SplitSecond(field.PackageName, ".")
       IN /\ Contains(field.PackageName, ".")
          /\ IF packageName \notin DOMAIN importMap
             THEN \* Warning: Could not find import; continue
                  /\ stack' = SkipField
                  /\ UNCHANGED <<pc, registry, heap>>
             ELSE LET fullPackagePath == importMap[packageName]
                  IN IF isExternalPackage(fullPackagePath, ModuleName)
                     THEN LET resolvedType ==
                                  parseExternalType(fullPackagePath, typeName, typeMappings,
                                                    ModuleName, field.PackageName, input.broken)
                          IN IF resolvedType.err
                             THEN /\ stack' = SkipField
                                  /\ UNCHANGED <<pc, registry, heap>>
                             ELSE IF Len(resolvedType.Fields) = 0
                                  THEN \* resolvedType.Fields[0]: index out of range
                                       /\ pc' = "panic"
                                       /\ UNCHANGED <<stack, registry, heap>>
                                  ELSE /\ heap' = [heap EXCEPT ![arr][i].Type =
                                                        resolvedType.Fields[1].Type]
                                       /\ stack' = Advance
                                       /\ UNCHANGED <<pc, registry>>
                     ELSE LET resolvedType ==
                                  parseInternalType(fullPackagePath, typeName, typeMappings,
                                                    ModuleName, input.broken)
                          IN IF resolvedType.err
                             THEN /\ stack' = SkipField
                                  /\ UNCHANGED <<pc, registry, heap>>
                             ELSE LET base == << Title(packageName) \o Flat(typeName) >>
                                      newTypeName == IF field.IsArray THEN ArrayOf(base) ELSE base
                                      tName == Flat(StripName(newTypeName))
                                      h1 == [heap EXCEPT ![arr][i].Type = newTypeName]
                                  IN /\ heap' = Append(h1, resolvedType.Fields)
                                     /\ registry' = AddType(registry,
                                            [Name |-> tName, FullName |-> packageName,
                                             Fields |-> Len(heap) + 1,
                                             origin |-> resolvedType.origin])
                                     /\ stack' = Advance
                                     /\ UNCHANGED pc
    /\ UNCHANGED <<gen, input, scanned, importMap, handlers, visited, queue, usedTypeSet, usedTypes>>

\* resolveNestedAndExternalTypes, a field whose PackageName names a registry
\* entry: the recursive call on a copy of that entry
ResolveNested ==
    /\ pc = "resolve"
    /\ stack # <<>>
    /\ Top.i <= Len(FieldsOf(heap, Top.t))
    /\ LET field == heap[Top.t.Fields][Top.i]
           name == Flat(SplitFirst(field.PackageName, " "))
       IN /\ ~Contains(field.PackageName, ".")
          /\ GetType(registry, name)
          /\ IF Len(stack) >= MaxStack
             THEN \* fatal error: stack overflow
                  /\ pc' = "overflow"
                  /\ UNCHANGED stack
             ELSE /\ stack' = Append(stack, [t |-> registry[name], i |-> 1])
                  /\ UNCHANGED pc
    /\ UNCHANGED <<gen, input, scanned, importMap, registry, heap, handlers, visited,
                   queue, usedTypeSet, usedTypes>>

\* resolveNestedAndExternalTypes, any other field: nothing to resolve
ResolveSkip ==
    /\ pc = "resolve"
    /\ stack # <<>>
    /\ Top.i <= Len(FieldsOf(heap, Top.t))
    /\ LET field == heap[Top.t.Fields][Top.i]
           name == Flat(SplitFirst(field.PackageName, " "))
       IN /\ ~Contains(field.PackageName, ".")
          /\ ~GetType(registry, name)
    /\ stack' = Advance
    /\ UNCHANGED <<gen, input, pc, scanned, importMap, registry, heap, handlers, visited,
                   queue, usedTypeSet, usedTypes>>

\* resolveNestedAndExternalTypes returns: to the resolution loop, or to the
\* calling frame, which adds nestedType to the registry and goes on
Return ==
    /\ pc = "resolve"
    /\ stack # <<>>
    /\ Top.i > Len(FieldsOf(heap, Top.t))
    /\ IF Len(stack) = 1
       THEN /\ stack' = <<>>
            /\ UNCHANGED registry
       ELSE LET rest == SubSeq(stack, 1, Len(stack) - 1) IN
            /\ registry' = AddType(registry, Top.t)
            /\ stack' = [rest EXCEPT ![Len(rest)].i = @ + 1]
    /\ UNCHANGED <<gen, input, pc, scanned, importMap, heap, handlers, visited,
                   queue, usedTypeSet, usedTypes>>

(***************************************************************************)
(* filterUsedTypes                                                         *)
(***************************************************************************)
RECURSIVE HandlerQueue(_)
\* filterUsedTypes: the queue is initialised from the handlers
HandlerQueue(hs) ==
    IF hs = <<>> THEN <<>>
    ELSE (IF Head(hs).InputType # "" THEN <<Head(hs).InputType>> ELSE <<>>)
         \o (IF Head(hs).OutputType # "" THEN <<Head(hs).OutputType>> ELSE <<>>)
         \o HandlerQueue(Tail(hs))

\* the resolution loop ends once every key that existed at its start has been
\* produced (entries added during the loop may be skipped); filterUsedTypes starts
StartFilter ==
    /\ pc = "resolve"
    /\ stack = <<>>
    /\ LoopKeys \subseteq visited
    /\ pc' = "filter"
    /\ queue' = HandlerQueue(handlers)
    /\ UNCHANGED <<gen, input, scanned, importMap, registry, heap, handlers, visited, stack,
                   usedTypeSet, usedTypes>>

\* the name filterUsedTypes compares: of a type name or of a field type
UsedName(s) == Flat(StripName(s))

RECURSIVE FieldTypesToQueue(_, _)
\* filterUsedTypes: the field types of a type that are not in the used set
FieldTypesToQueue(fields, used) ==
    IF fields = <<>> THEN <<>>
    ELSE (IF UsedName(Head(fields).Type) \notin used
          THEN <<UsedName(Head(fields).Type)>> ELSE <<>>)
         \o FieldTypesToQueue(Tail(fields), used)

\* one iteration that expands the name it takes from the queue whether or
\* not the name is in the used set
FilterStepExpandsAgain ==
    /\ pc = "filter"
    /\ queue # <<>>
    /\ LET typeName == Head(queue)
           found == { n \in DOMAIN registry : UsedName(<<n>>) = typeName }
       IN /\ usedTypeSet' = usedTypeSet \cup {typeName}
          /\ queue' = IF found = {} THEN Tail(queue)
                      ELSE Tail(queue) \o
                           FieldTypesToQueue(FieldsOf(heap, registry[CHOOSE n \in found : TRUE]),
                                             usedTypeSet')
    /\ UNCHANGED <<gen, input, pc, scanned, importMap, registry, heap, handlers, visited, stack,
                   usedTypes>>

\* filterUsedTypes: one iteration of `for len(queue) > 0`
FilterStep ==
    /\ pc = "filter"
    /\ queue # <<>>
    /\ LET typeName == Head(queue)
           found == { n \in DOMAIN registry : UsedName(<<n>>) = typeName }
       IN IF typeName \in usedTypeSet
          THEN /\ queue' = Tail(queue)
               /\ UNCHANGED usedTypeSet
          ELSE /\ usedTypeSet' = usedTypeSet \cup {typeName}
               /\ queue' = IF found = {} THEN Tail(queue)
                           ELSE Tail(queue) \o
                                FieldTypesToQueue(FieldsOf(heap, registry[CHOOSE n \in found : TRUE]),
                                                  usedTypeSet')
    /\ UNCHANGED <<gen, input, pc, scanned, importMap, registry, heap, handlers, visited, stack,
                   usedTypes>>

\* filterUsedTypes: the types whose name is in the used set; parsePackage returns
FilterEnd ==
    /\ pc = "filter"
    /\ queue = <<>>
    /\ usedTypes' = { n \in DOMAIN registry : UsedName(<<n>>) \in usedTypeSet }
    /\ pc' = "done"
    /\ UNCHANGED <<gen, input, scanned, importMap, registry, heap, handlers, visited, stack,
                   queue, usedTypeSet>>

(***************************************************************************)
(* Inputs: the directories parsePackage is run on                          *)
(***************************************************************************)
Imp(n, path) == [name |-> n, path |-> path]
FieldDecl(n, e) == [names |-> <<n>>, expr |-> e, tag |-> ""]
StructDecl(n, fields) == [name |-> n, fields |-> fields]
\* a function declaration: its name and the texts of its doc comments (an
\* empty doc: the function has none, node.Doc is nil)
FuncDecl(n, doc) == [name |-> n, doc |-> doc]
\* a comment line with one directive
Line(marker, value) == <<"//", " ", marker, " ">> \o value
\* a function n documented as a GET handler on /a with the given input and
\* output types ("" leaves the directive out)
Handler(n, in, out) ==
    FuncDecl(<<n>>, << Line("@Method", <<"GET">>), Line("@Path", <<"/", "a">>) >>
                    \o (IF in # "" THEN << Line("@Input", <<in>>) >> ELSE <<>>)
                    \o (IF out # "" THEN << Line("@Output", <<out>>) >> ELSE <<>>))
\* a source file; bad: parser.ParseFile fails on it
File(imports, structs, fns) ==
    [imports |-> imports, structs |-> structs, funcs |-> fns, bad |-> FALSE]

\* a file that imports every package under the last element of its path
DefaultImports ==
    << Imp("", PathTime), Imp("", PathPq), Imp("", PathUuid),
       Imp("", PathAlpha), Imp("", PathBeta) >>

NoCustom == [x \in {} |-> <<>>]
CustomExternal ==
    ("time.Time" :> <<"Moment">>) @@ ("pq.StringArray" :> ArrayOf(TsString))
CustomLocal ==
    ("alpha.Info" :> TsString) @@ ("B" :> TsString) @@ ("int" :> <<"bigint">>)
Customs == {NoCustom, CustomExternal, CustomLocal}

NoneBroken == {}
SomeBroken == {Flat(PathBeta), Flat(PathPq)}

\* the wrappers of a declared field type
Wrap(w, e) ==
    CASE w = "plain" -> e
      [] w = "ptr" -> Star(e)
      [] w = "slice" -> ArrayT(e)
      [] w = "slice2" -> ArrayT(ArrayT(e))
      [] w = "ptrslice" -> Star(ArrayT(e))
      [] w = "map" -> MapT(Ident("string"), e)
Wrappers == {"plain", "ptr", "slice", "slice2", "ptrslice", "map"}

\* the base types of a declared field: a primitive, a struct of the package,
\* external types (mapped by the date mode, by default, or only by the
\* configuration), an unknown qualifier, internal types
Bases ==
    { Ident("int"), Ident("B"), Sel("time", "Time"), Sel("uuid", "UUID"),
      Sel("pq", "StringArray"), Sel("ghost", "T"), Sel("alpha", "Info"),
      Sel("beta", "Info") }

GetA == << Handler("GetA", "GetAInput", "A") >>

\* a struct A with a field of type T and a field of a wrapped T, and a struct B
WrapperInputs ==
    { [files |-> << File(DefaultImports,
                         << StructDecl("A", << FieldDecl("F1", b), FieldDecl("F2", Wrap(w, b)) >>),
                            StructDecl("B", << FieldDecl("X", Ident("int")) >>) >>,
                         GetA) >>,
       custom |-> c, useDateObject |-> d, broken |-> br] :
      b \in Bases, w \in Wrappers, c \in Customs, d \in BOOLEAN,
      br \in {NoneBroken, SomeBroken} }

\* structs A and B that refer to A, B and C in every wrapping, and handlers
\* that name A, B or nothing declared
GraphTypes ==
    { Ident("int") } \cup { Wrap(w, Ident(n)) : w \in Wrappers, n \in {"A", "B", "C"} }
GraphInputs ==
    { [files |-> << File(DefaultImports,
                         << StructDecl("A", << FieldDecl("F", ga) >>),
                            StructDecl("B", << FieldDecl("F", gb) >>),
                            StructDecl("C", << FieldDecl("X", Ident("int")) >>) >>,
                         << Handler("Get", in, out) >>) >>,
       custom |-> NoCustom, useDateObject |-> TRUE, broken |-> NoneBroken] :
      ga \in GraphTypes, gb \in GraphTypes,
      in \in {"", "B"}, out \in {"A"} }

\* a struct A next to a struct whose name is also the target of a mapping
\* (Date, Error) or the name an internal type is registered under (AlphaInfo)
CollisionInputs ==
    { [files |-> << File(DefaultImports,
                         << StructDecl("A", << FieldDecl("F1", e) >>), x >>,
                         GetA) >>,
       custom |-> NoCustom, useDateObject |-> d, broken |-> NoneBroken] :
      e \in { Sel("time", "Time"), Ident("error"), Sel("alpha", "Info"),
              Ident("AlphaInfo"), Ident("int") },
      x \in { StructDecl("Date", << FieldDecl("V", Ident("int")) >>),
              StructDecl("Error", << FieldDecl("V", Ident("int")) >>),
              StructDecl("AlphaInfo", << FieldDecl("V", Ident("int")) >>),
              StructDecl("AlphaInfo", << FieldDecl("V", Sel("alpha", "Info")) >>) },
      d \in BOOLEAN }

\* one or two files with their own imports (plain or renamed) of the
\* internal packages, and fields of the types Info of the imported packages
ImportLists ==
    { << Imp("", PathAlpha), Imp("", PathBeta) >>,
      << Imp("a", PathAlpha), Imp("", PathBeta) >>,
      << Imp("m", PathAlpha) >>,
      << Imp("m", PathBeta) >>,
      << Imp("", PathSibling), Imp("", PathAlpha) >> }
Qualifiers(imps) == { ImportKey(imps[i]) : i \in DOMAIN imps }
ImportFiles ==
    { File(imps, << StructDecl(n, << FieldDecl("F1", Sel(q1, "Info")),
                                     FieldDecl("F2", Wrap(w, Sel(q2, "Info"))) >>) >>, <<>>) :
      imps \in ImportLists, n \in {"A"}, q1 \in {"alpha", "a", "m", "gamma"},
      q2 \in {"alpha", "beta", "m"}, w \in {"plain", "slice"} }
SecondFiles ==
    { File(imps, << StructDecl("B", << FieldDecl("F1", Sel(q1, "Info")) >>) >>, GetA) :
      imps \in ImportLists, q1 \in {"alpha", "beta", "m"} }
\* a file uses only qualifiers it imports
WellFormed(file) ==
    \A i \in DOMAIN file.structs : \A j \in DOMAIN file.structs[i].fields :
        LET e == file.structs[i].fields[j].expr
            b == IF e.k = "Array" THEN e.e ELSE e
        IN b.x \in Qualifiers(file.imports)
ImportInputs ==
    { [files |-> << f1, f2 >>,
       custom |-> NoCustom, useDateObject |-> TRUE, broken |-> NoneBroken] :
      f1 \in { f \in ImportFiles : WellFormed(f) },
      f2 \in { f \in SecondFiles : WellFormed(f) } }

\* header keys, character by character
HeaderKeys ==
    { <<"X", "-", "K", "a">>, <<"X", ".", "K">>, <<"X", " ", "a">>, <<"1", "a">>,
      <<"7", "-", "x">>, <<"a", "_", "x">>, <<"-">>, <<".">>, <<>> }
HeaderSources == { <<"input">>, <<"localStorage">>, <<"sessionStorage">>, <<"cookie">>, <<>> }
StorageKeys == { <<"k">>, <<"a", "-", "K">>, <<>> }
\* the texts that follow @Header: a key; source:key; source:key:storageKey;
\* a text with more colons
HeaderDirectives ==
    HeaderKeys
    \cup { src \o <<":">> \o k : src \in HeaderSources, k \in HeaderKeys }
    \cup { src \o <<":">> \o k \o <<":">> \o v :
             src \in HeaderSources, k \in HeaderKeys, v \in StorageKeys }
    \cup { src \o <<":">> \o k \o <<":">> \o v \o <<":", "x">> :
             src \in HeaderSources, k \in {<<"X", "-", "K", "a">>}, v \in StorageKeys }

UsersPath == <<"/", "users", "/", ":", "id", "/", "posts", "/", ":", "postId">>
ItemsPath == <<"/", "items", "/", ":", "itemId">>
Paths == { UsersPath, ItemsPath, <<"/", "users">>, <<"/", ":">>, <<>> }

\* function names: getUserHandler, GetUser, Handler, xHandler, HandlerHandler,
\* getHandlerUser
FuncNames ==
    { <<"g", "etUser", "Handler">>, <<"G", "etUser">>, <<"Handler">>, <<"x", "Handler">>,
      <<"Handler", "Handler">>, <<"g", "et", "Handler", "User">> }

\* a file with the struct A and one function
OneFunc(fn) ==
    [files |-> << File(DefaultImports,
                       << StructDecl("A", << FieldDecl("X", Ident("int")) >>) >>,
                       << fn >>) >>,
     custom |-> NoCustom, useDateObject |-> TRUE, broken |-> NoneBroken]

\* a handler with one or two @Header directives
HeaderInputs ==
    { OneFunc(FuncDecl(<<"g", "etUser", "Handler">>,
                       << Line("@Method", <<"GET">>), Line("@Path", <<"/", "users">>),
                          Line("@Header", d) >>)) : d \in HeaderDirectives }
    \cup { OneFunc(FuncDecl(<<"g", "etUser", "Handler">>,
                       << Line("@Method", <<"GET">>), Line("@Header", d1),
                          Line("@Path", <<"/", "users">>), Line("@Header", d2) >>)) :
             d1 \in { <<"X", "-", "K", "a">>, <<"input", ":", "1", "a">> },
             d2 \in { <<"localStorage", ":", "X", "-", "K", "a">>,
                      <<"input", ":", "X", ".", "K", ":", "k">> } }

\* the doc comments of a function: line comments with a directive each (none,
\* some, or all of them; a directive twice; a directive without value), plain
\* text, and one block comment that holds all the directives
MethodLines ==
    { <<>>, << Line("@Method", <<"GET">>) >>, << Line("@Method", <<>>) >>,
      << Line("@Method", <<"GET">>), Line("@Method", <<>>) >> }
PathLines ==
    { <<>> } \cup { << Line("@Path", q) >> : q \in Paths }
    \cup { << Line("@Path", UsersPath), Line("@Path", ItemsPath) >> }
OtherLines ==
    { <<>>, << Line("@Input", <<"GetAInput">>), Line("@Output", <<"A">>) >>,
      << <<"//", " ", "returns", " ", "a", " ", "user">> >> }
BlockDoc ==
    << <<"/*", "\n", "@Method", " ", "GET", "\n", "@Path", " ", "/", "users", "\n",
         "@Output", " ", "A", "\n", "*/">> >>
Docs ==
    { o \o m \o q : m \in MethodLines, q \in PathLines, o \in OtherLines }
    \cup { q \o m \o o : m \in MethodLines, q \in PathLines, o \in OtherLines }
    \cup { BlockDoc }
HandlerInputs == { OneFunc(FuncDecl(n, doc)) : n \in FuncNames, doc \in Docs }

\* two files, each of which parses or not
ParseInputs ==
    { [files |-> << [File(DefaultImports,
                          << StructDecl("A", << FieldDecl("F", Ident("B")) >>) >>,
                          GetA) EXCEPT !.bad = b1],
                    [File(DefaultImports,
                          << StructDecl("B", << FieldDecl("X", Ident("int")) >>) >>,
                          <<>>) EXCEPT !.bad = b2] >>,
       custom |-> NoCustom, useDateObject |-> TRUE, broken |-> NoneBroken] :
      b1 \in BOOLEAN, b2 \in BOOLEAN }

\* a struct A whose first field cannot be resolved (unknown qualifier, a
\* package that does not load, a type the package does not have, an external
\* type without mapping) and whose second field can, and a struct B
MixedInputs ==
    { [files |-> << File(DefaultImports,
                         << StructDecl("A", << FieldDecl("F1", bad), FieldDecl("F2", Wrap(w, good)) >>),
                            StructDecl("B", << FieldDecl("F1", good) >>) >>,
                         GetA) >>,
       custom |-> NoCustom, useDateObject |-> TRUE, broken |-> br] :
      bad \in { Sel("ghost", "T"), Sel("beta", "Info"), Sel("alpha", "Missing"),
                Sel("pq", "StringArray"), Sel("time", "Missing") },
      good \in { Sel("alpha", "Info"), Sel("uuid", "UUID") },
      w \in {"plain", "slice"},
      br \in {NoneBroken, SomeBroken} }

\* the field declarations of a struct: one name, several names for one type
\* (`X, Y float64`), no name (an embedded struct)
FieldLists ==
    { [names |-> ns, expr |-> Ident("float64"), tag |-> ""] :
          ns \in { <<"X">>, <<"X", "Y">>, <<"P", "Q", "R">> } }
    \cup { [names |-> <<>>, expr |-> Ident("B"), tag |-> ""],
           [names |-> <<"Z">>, expr |-> Ident("int"), tag |-> ""] }
FieldListInputs ==
    { [files |-> << File(DefaultImports,
                         << StructDecl("A", << fd1, fd2 >>),
                            StructDecl("B", << FieldDecl("V", Ident("int")) >>) >>,
                         GetA) >>,
       custom |-> NoCustom, useDateObject |-> TRUE, broken |-> NoneBroken] :
      fd1 \in FieldLists, fd2 \in FieldLists }

Inputs ==
    WrapperInputs \cup GraphInputs \cup CollisionInputs \cup ImportInputs
    \cup HeaderInputs \cup HandlerInputs \cup ParseInputs \cup MixedInputs
    \cup FieldListInputs

Init ==
    /\ input \in Inputs
    /\ pc = "parse"
    /\ scanned = {}
    /\ importMap = [x \in {} |-> <<>>]
    /\ registry = [x \in {} |-> <<>>]
    /\ heap = <<>>
    /\ handlers = <<>>
    /\ visited = {}
    /\ stack = <<>>
    /\ queue = <<>>
    /\ usedTypeSet = {}
    /\ usedTypes = {}
    /\ gen = NotRunning

Next ==
    \/ ParseDir
    \/ \E f \in DOMAIN input.files : ScanFile(f)
    \/ \E n \in DOMAIN registry : LoopVisit(n)
    \/ ResolveQualified
    \/ ResolveNested
    \/ ResolveSkip
    \/ Return
    \/ StartFilter
    \/ FilterStep
    \/ FilterEnd

Spec == Init /\ [][Next]_vars

(***************************************************************************)
(* filterUsedTypes on its own: called with any list of types and any list  *)
(* of handlers, the types referring to themselves and to each other.  The  *)
(* loop is a sequential program, so an iteration that can run does run.    *)
(***************************************************************************)
\* a TypeInfo of the list, its fields of the given types
FilterType(n, types) ==
    [Name |-> n, FullName |-> n,
     Fields |-> [j \in DOMAIN types |-> [Name |-> <<"F">>, Type |-> types[j]]]]

FilterFieldTypesA ==
    { <<"int">>, <<"A">>, <<"B">>, <<"Array<", "B", ">">>, <<"C">> }
FilterFieldTypesB ==
    { <<"int">>, <<"A">>, <<"B", " ", "|", " ", "null">>, <<"C">> }
FilterFieldTypesC ==
    { <<"int">>, <<"A">> }
FilterHandlers ==
    { << [InputType |-> "", OutputType |-> "A"] >>,
      << [InputType |-> "A", OutputType |-> "A"] >>,
      << [InputType |-> "B", OutputType |-> "A"] >>,
      << [InputType |-> "C", OutputType |-> ""], [InputType |-> "", OutputType |-> "B"] >> }
FilterInputs ==
    { [allTypes |-> << FilterType("A", <<a1, a2>>), FilterType("B", <<b>>),
                       FilterType("C", <<c>>) >>,
       handlers |-> hs] :
      a1 \in FilterFieldTypesA, a2 \in FilterFieldTypesA, b \in FilterFieldTypesB,
      c \in FilterFieldTypesC, hs \in FilterHandlers }

FilterInit ==
    /\ input \in FilterInputs
    /\ pc = "filter"
    /\ registry = [n \in { input.allTypes[k].Name : k \in DOMAIN input.allTypes } |->
                     LET k == CHOOSE k \in DOMAIN input.allTypes : input.allTypes[k].Name = n
                     IN [Name |-> n, FullName |-> n, Fields |-> k]]
    /\ heap = [k \in DOMAIN input.allTypes |-> input.allTypes[k].Fields]
    /\ handlers = input.handlers
    /\ queue = HandlerQueue(handlers)
    /\ usedTypeSet = {}
    /\ usedTypes = {}
    /\ scanned = {}
    /\ importMap = [x \in {} |-> <<>>]
    /\ visited = {}
    /\ stack = <<>>
    /\ gen = NotRunning

FilterNext == FilterStep \/ FilterEnd

FilterSpec == FilterInit /\ [][FilterNext]_vars /\ WF_vars(FilterNext)

(***************************************************************************)
(* generate: the loop over the configured packages.  What each call of the *)
(* loop body does for a package (filepath.Abs, parsePackage, generateFile) *)
(* is given by the configuration of the run: fails names the call that     *)
(* returns an error for the package, "none" if none does.                  *)
(***************************************************************************)
\* the length of the longest list of packages
MaxPackages == 3

Failures == {"none", "abs", "parse", "module", "file"}
PackageLists == UNION { [1..n -> Failures] : n \in 0..MaxPackages }
GenInputs == { [loaded |-> l, packages |-> ps] : l \in BOOLEAN, ps \in PackageLists }

GenInit ==
    /\ input \in GenInputs
    /\ gen = [pc |-> "load", i |-> 0, attempted |-> <<>>, written |-> {}, err |-> FALSE]
    /\ pc = "idle"
    /\ scanned = {}
    /\ importMap = [x \in {} |-> <<>>]
    /\ registry = [x \in {} |-> <<>>]
    /\ heap = <<>>
    /\ handlers = <<>>
    /\ visited = {}
    /\ stack = <<>>
    /\ queue = <<>>
    /\ usedTypeSet = {}
    /\ usedTypes = {}

\* generate: loadConfig; an error is returned to the caller
LoadConfig ==
    /\ gen.pc = "load"
    /\ gen' = IF input.loaded THEN [gen EXCEPT !.pc = "loop", !.i = 1]
              ELSE [gen EXCEPT !.pc = "returned", !.err = TRUE]
    /\ UNCHANGED <<input, pc, scanned, importMap, registry, heap, handlers, visited,
                   stack, queue, usedTypeSet, usedTypes>>

\* the package of this iteration has been attempted
Attempted(g) == [g EXCEPT !.attempted = Append(@, g.i)]

\* generate, the loop body for one package: the first call that fails prints
\* the error and continues; otherwise the output file is written
GenPackage ==
    /\ gen.pc = "loop"
    /\ gen.i <= Len(input.packages)
    /\ gen' = IF input.packages[gen.i] # "none"
              THEN Continue(Attempted(gen))
              ELSE [Attempted(gen) EXCEPT !.written = @ \cup {gen.i}, !.i = @ + 1]
    /\ UNCHANGED <<input, pc, scanned, importMap, registry, heap, handlers, visited,
                   stack, queue, usedTypeSet, usedTypes>>

\* generate: the loop is over, return nil
GenReturn ==
    /\ gen.pc = "loop"
    /\ gen.i > Len(input.packages)
    /\ gen' = [gen EXCEPT !.pc = "returned"]
    /\ UNCHANGED <<input, pc, scanned, importMap, registry, heap, handlers, visited,
                   stack, queue, usedTypeSet, usedTypes>>

GenNext == LoadConfig \/ GenPackage \/ GenReturn

GenSpec == GenInit /\ [][GenNext]_vars

(***************************************************************************)
(* What the claims speak of                                                *)
(***************************************************************************)
EmptyMap == [x \in {} |-> <<>>]

\* the struct declarations of the scanned directory
AllDecls ==
    UNION { { input.files[f].structs[i] : i \in DOMAIN input.files[f].structs } :
            f \in DOMAIN input.files }

RECURSIVE Unwrap(_)
\* the declared type under its pointers and slices
Unwrap(e) == IF e.k \in {"Star", "Array"} THEN Unwrap(e.e) ELSE e

\* the structs of the package that a declaration has fields of
DeclRefs(d) ==
    { Unwrap(d.fields[j].expr).name :
        j \in { j \in DOMAIN d.fields : Unwrap(d.fields[j].expr).k = "Ident" } }

\* two structs of the package refer to each other, or one refers to itself
Cyclic == \E a \in AllDecls, b \in AllDecls : b.name \in DeclRefs(a) /\ a.name \in DeclRefs(b)

\* the fields of the registry entry n
Entry(n) == FieldsOf(heap, registry[n])

\* the entries that come from a struct declaration of the scanned directory
LocalEntries == { n \in DOMAIN registry : registry[n].origin.kind = "local" }

\* the import path that file f itself binds the qualifier x to
OwnImports(f) == AddImports(EmptyMap, input.files[f].imports)

\* C1: when structs of the package refer to each other cyclically, the
\* resolution pass terminates (it does not exhaust the stack), and afterwards
\* every struct declared has its entry in the registry.
C1_CyclesTerminate ==
    Cyclic =>
        /\ pc # "overflow"
        /\ pc \in {"filter", "done"} => \A d \in AllDecls : d.name \in DOMAIN registry

\* C2: after parsePackage, no field of a returned type has a type that
\* contains a qualified name package.Type.
C2_NoQualifiedNameLeft ==
    pc = "done" =>
        \A n \in usedTypes : \A j \in DOMAIN Entry(n) : ~Contains(Entry(n)[j].Type, ".")

RECURSIVE ExprRefs(_)
\* the registry types a declared field type refers to, through any wrapper: a
\* struct of the package that no mapping replaces, or the type an internal
\* qualified name is registered under
ExprRefs(e) ==
    CASE e.k = "Ident" ->
            IF e.name \in LoopKeys /\ e.name \notin DOMAIN typeMappings THEN {e.name} ELSE {}
      [] e.k \in {"Star", "Array"} -> ExprRefs(e.e)
      [] e.k = "Map" -> ExprRefs(e.key) \cup ExprRefs(e.val)
      [] e.k = "Sel" ->
            IF e.x \in DOMAIN importMap /\ HasPrefix(importMap[e.x], ModuleName)
            THEN {Title(e.x) \o e.sel} \cap DOMAIN registry
            ELSE {}
      [] OTHER -> {}

EntryRefs(n) == UNION { ExprRefs(Entry(n)[j].decl) : j \in DOMAIN Entry(n) }

RECURSIVE Closure(_)
Closure(S) ==
    LET more == S \cup UNION { EntryRefs(n) : n \in S \cap DOMAIN registry }
    IN IF more = S THEN S ELSE Closure(more)

\* the registry types reachable from the input and output types of the handlers
Reachable ==
    Closure({ HandlerQueue(handlers)[i] : i \in DOMAIN HandlerQueue(handlers) })
        \cap DOMAIN registry

\* C3: every registry type reachable from a handler through the fields of
\* reachable types, in any wrapping, is in the output of filterUsedTypes.
C3_ReachableTypesKept == pc = "done" => Reachable \subseteq usedTypes

\* C4: the output of filterUsedTypes holds no type that is not reachable from
\* a handler.
C4_OnlyReachableTypesKept == pc = "done" => usedTypes \subseteq Reachable

\* the declared types T the claims on *T and []T speak of: a primitive, a
\* struct of the package, a mapped external type, an internal type
ClaimBase(e) ==
    \/ e.k = "Ident" /\ (e.name \in DOMAIN defaultTypeMappings \/ e.name \in LoopKeys)
    \/ e.k = "Sel" /\ e.x \in DOMAIN importMap
         /\ (HasPrefix(importMap[e.x], ModuleName) \/ Flat(<<e.x, ".", e.sel>>) \in DOMAIN typeMappings)

\* C5: a field declared *T is optional and its type is the type of a field
\* declared T followed by " | null".
C5_PointerIsTypeOrNull ==
    pc = "done" =>
        \A n \in LocalEntries : \A j \in DOMAIN Entry(n), k \in DOMAIN Entry(n) :
            (ClaimBase(Entry(n)[j].decl) /\ Entry(n)[k].decl = Star(Entry(n)[j].decl)) =>
                /\ Entry(n)[k].IsOptional
                /\ Entry(n)[k].Type = Entry(n)[j].Type \o NullSuffix

\* C6: a field declared []T is an array and its type is Array<R>, R the type
\* of a field declared T.
C6_SliceIsArrayOfType ==
    pc = "done" =>
        \A n \in LocalEntries : \A j \in DOMAIN Entry(n), k \in DOMAIN Entry(n) :
            (ClaimBase(Entry(n)[j].decl) /\ Entry(n)[k].decl = ArrayT(Entry(n)[j].decl)) =>
                /\ Entry(n)[k].IsArray
                /\ Entry(n)[k].Type = ArrayOf(Entry(n)[j].Type)

\* C7: a lookup of a key of the user-supplied mappings returns the
\* user-supplied value.
C7_UserMappingWins ==
    pc # "scan" => \A key \in DOMAIN input.custom : typeMappings[key] = input.custom[key]

\* the mapping key of a declared type that is an identifier or a qualified name
MappingKey(e) == IF e.k = "Ident" THEN e.name ELSE Flat(<<e.x, ".", e.sel>>)

\* C8: a field whose declared type is a name the configuration maps to M has
\* the type M after the pass.
C8_ConfiguredMappingApplied ==
    pc = "done" =>
        \A n \in LocalEntries : \A j \in DOMAIN Entry(n) :
            LET e == Entry(n)[j].decl IN
            (e.k \in {"Ident", "Sel"} /\ MappingKey(e) \in DOMAIN input.custom) =>
                Entry(n)[j].Type = input.custom[MappingKey(e)]

\* the references of the scanned structs to a type of an internal package:
\* the field, and the package its own file imports under the qualifier
InternalRefs ==
    { r \in [n : LocalEntries, j : 1..2, path : {PathAlpha, PathBeta}] :
        /\ r.j \in DOMAIN Entry(r.n)
        /\ LET e == Unwrap(Entry(r.n)[r.j].decl)
               own == OwnImports(registry[r.n].origin.file)
           IN /\ e.k = "Sel"
              /\ e.x \in DOMAIN own
              /\ own[e.x] = r.path
              /\ Flat(r.path) \notin input.broken
              /\ e.sel \in DOMAIN GoPackages[Flat(r.path)].scope }

\* the name of the package at an import path
PkgName(path) == Flat(SplitLast(path, "/"))

\* C9: when fields refer to a type T of two distinct internal packages p and
\* q, the registry has two distinct entries Capitalized(p)+T and
\* Capitalized(q)+T, each with the fields of its own type, and each field
\* has the type of the entry of its package.
C9_InternalTypesDisambiguated ==
    pc = "done" =>
        \A r1 \in InternalRefs, r2 \in InternalRefs :
            LET t1 == Unwrap(Entry(r1.n)[r1.j].decl).sel
                t2 == Unwrap(Entry(r2.n)[r2.j].decl).sel
                n1 == Title(PkgName(r1.path)) \o t1
                n2 == Title(PkgName(r2.path)) \o t2
            IN (r1.path # r2.path /\ t1 = t2) =>
                /\ n1 # n2
                /\ n1 \in DOMAIN registry /\ n2 \in DOMAIN registry
                /\ registry[n1].origin = [kind |-> "internal", path |-> Flat(r1.path), name |-> t1]
                /\ registry[n2].origin = [kind |-> "internal", path |-> Flat(r2.path), name |-> t2]
                /\ UsedName(Entry(r1.n)[r1.j].Type) = n1
                /\ UsedName(Entry(r2.n)[r2.j].Type) = n2

\* C10: no registry entry made for one source type is replaced by an entry
\* for another source type.
C10_NoEntryReplaced ==
    [][\A n \in DOMAIN registry : registry'[n].origin = registry[n].origin]_vars

\* the entries that come from a type of an internal package
InternalEntries == { n \in DOMAIN registry : registry[n].origin.kind = "internal" }

\* C11: after the resolution pass, a type of an internal package that fields
\* of the scanned package refer to has one registry entry: no two entries come
\* from the same internal type.
C11_OneEntryPerInternalType ==
    pc \in {"filter", "done"} =>
        \A n1 \in InternalEntries, n2 \in InternalEntries :
            registry[n1].origin = registry[n2].origin => n1 = n2

\* the directive markers, in the order parseHandlerComments tests them
Markers == <<"@Method", "@Path", "@Input", "@Output", "@Header">>

\* the directive a doc comment carries: the first marker, in that order, that
\* its text contains ("" if it contains none)
DirectiveOf(text) ==
    IF \E i \in DOMAIN Markers : Contains(text, Markers[i])
    THEN Markers[CHOOSE i \in DOMAIN Markers :
                    /\ Contains(text, Markers[i])
                    /\ \A j \in 1..(i-1) : ~Contains(text, Markers[j])]
    ELSE ""

\* the text of a directive comment after its marker, without the spaces
\* around it
TextAfter(text, marker) ==
    LET i == IndexOf(text, marker)
        rest == SubSeq(text, i + 1, Len(text))
        j == IndexOf(rest, marker)
    IN TrimSpace(IF j = 0 THEN rest ELSE SubSeq(rest, 1, j - 1))

\* the texts of the comments of a doc that carry the directive marker, in order
TextsOf(doc, marker) ==
    LET sel == SelectSeq(doc, LAMBDA text : DirectiveOf(text) = marker)
    IN [i \in 1..Len(sel) |-> TextAfter(sel[i], marker)]

\* the positions of the colons of a text
ColonsOf(d) == { i \in 1..Len(d) : d[i] = ":" }
FirstColon(d) == CHOOSE i \in ColonsOf(d) : \A j \in ColonsOf(d) : i <= j
LastColon(d) == CHOOSE i \in ColonsOf(d) : \A j \in ColonsOf(d) : j <= i

StorageSources == { <<"localStorage">>, <<"sessionStorage">> }

\* the header that C12 states for the directive text d and the parsed header hd
HeaderAsStated(d, hd) ==
    CASE Cardinality(ColonsOf(d)) = 2 ->
            /\ hd.Source = SubSeq(d, 1, FirstColon(d) - 1)
            /\ hd.HeaderKey = SubSeq(d, FirstColon(d) + 1, LastColon(d) - 1)
            /\ hd.StorageKey = SubSeq(d, LastColon(d) + 1, Len(d))
      [] Cardinality(ColonsOf(d)) = 1 ->
            /\ hd.Source = SubSeq(d, 1, FirstColon(d) - 1)
            /\ hd.HeaderKey = SubSeq(d, FirstColon(d) + 1, Len(d))
            /\ hd.Source \in StorageSources => hd.StorageKey = hd.HeaderKey
            /\ hd.Source = <<"input">> => hd.StorageKey = <<>>
      [] OTHER ->
            /\ hd.Source = <<"input">>
            /\ hd.HeaderKey = d
            /\ hd.StorageKey = <<>>

\* the handlers found so far, as a set
HandlerSet == { handlers[i] : i \in DOMAIN handlers }

\* C12: every header of a handler is the one its @Header directive states:
\* s:k:v gives source s, key k and storage key v; s:k gives source s, key k,
\* and the storage key k for a storage source, none for input; any other text
\* gives source input, no storage key and the text as key.
C12_HeaderDirectiveParsed ==
    \A h \in HandlerSet :
        LET ds == TextsOf(h.fn.doc, "@Header") IN
        /\ Len(h.Headers) = Len(ds)
        /\ \A i \in DOMAIN ds : HeaderAsStated(ds[i], h.Headers[i])

\* C12, witness: headers of the three shapes have been parsed
C12_Witness_TwoParts ==
    \E h \in HandlerSet : \E i \in DOMAIN h.Headers :
        /\ Cardinality(ColonsOf(TextsOf(h.fn.doc, "@Header")[i])) = 1
        /\ h.Headers[i].Source = <<"localStorage">>
        /\ h.Headers[i].StorageKey = <<"X", "-", "K", "a">>

\* C13: the source of every header is input, localStorage or sessionStorage.
C13_SourceIsKnown ==
    \A h \in HandlerSet : \A i \in DOMAIN h.Headers :
        h.Headers[i].Source \in StorageSources \cup { <<"input">> }

\* C14: a header whose source is input has no storage key.
C14_InputHasNoStorageKey ==
    \A h \in HandlerSet : \A i \in DOMAIN h.Headers :
        h.Headers[i].Source = <<"input">> => h.Headers[i].StorageKey = <<>>

\* the headers of the handlers found so far
HeaderSet == UNION { { h.Headers[i] : i \in DOMAIN h.Headers } : h \in HandlerSet }

\* a letter or a digit, in either case
IsAlnum(c) == ToLowerTok(c) \in LowerAlnum \ {"_"}

\* the key lower-cased, with "_" for every character that is no letter or digit
Underscored(key) == [i \in 1..Len(key) |-> IF IsAlnum(key[i]) THEN ToLowerTok(key[i]) ELSE "_"]

\* only characters a-z, 0-9 and _, and no digit in front
IdentifierSafe(s) == (\A i \in 1..Len(s) : s[i] \in LowerAlnum) /\ (s = <<>> \/ s[1] \notin Digits)

\* C15, as stated: safeName is the header key lower-cased with every
\* non-alphanumeric character replaced by "_", and is identifier-safe.
C15_SafeNameUnderscored ==
    \A hd \in HeaderSet : hd.SafeName = Underscored(hd.HeaderKey) /\ IdentifierSafe(hd.SafeName)

\* the key lower-cased, hyphens turned into "_", every other character that
\* is not a-z, 0-9 or _ dropped, and "_" put in front of a leading digit
Cleaned(key) ==
    LET kept == SelectSeq(key, LAMBDA c : c = "-" \/ ToLowerTok(c) \in LowerAlnum)
        low == [i \in 1..Len(kept) |-> IF kept[i] = "-" THEN "_" ELSE ToLowerTok(kept[i])]
    IN IF low # <<>> /\ low[1] \in Digits THEN <<"_">> \o low ELSE low

\* C15, amended: safeName is the header key lower-cased, with "-" replaced by
\* "_", every other character outside a-z, 0-9, _ removed, and "_" put in
\* front if a digit would lead; it holds only a-z, 0-9, _ and never starts
\* with a digit.
C15_SafeNameCleaned ==
    \A hd \in HeaderSet : hd.SafeName = Cleaned(hd.HeaderKey) /\ IdentifierSafe(hd.SafeName)

\* C15, witness: a key with a dot and a key with a leading digit were parsed
C15_Witness_DotAndDigit ==
    /\ pc = "done"
    /\ \E hd \in HeaderSet : hd.HeaderKey = <<"1", "a">> /\ hd.SafeName = <<"_", "1", "a">>
    /\ \E hd \in HeaderSet : hd.HeaderKey = <<"X", ".", "K">> /\ hd.SafeName = <<"x", "k">>

RECURSIVE ParamsFrom(_, _)
\* the names of the parameter segments of a path from position i on: a
\* segment starts at the front or after a "/", and is a parameter when it
\* begins with ":"
ParamsFrom(path, i) ==
    IF i > Len(path) THEN <<>>
    ELSE LET rest == SubSeq(path, i, Len(path))
             seg == SplitFirst(rest, "/")
         IN (IF seg # <<>> /\ seg[1] = ":" THEN <<Tail(seg)>> ELSE <<>>)
            \o ParamsFrom(path, i + Len(seg) + 1)

\* C16: the URL parameters of a handler are, in order, the segments of its
\* path that begin with ":", without the ":".
C16_UrlParamsOfPath ==
    \A h \in HandlerSet : h.URLParams = ParamsFrom(h.Path, 1)

\* the functions of the files scanned so far
ScannedFuncs ==
    UNION { { input.files[f].funcs[i] : i \in DOMAIN input.files[f].funcs } : f \in scanned }

\* the value the last directive of a kind gives ("" if the doc has none)
LastValue(doc, marker) ==
    LET vs == TextsOf(doc, marker) IN IF vs = <<>> THEN <<>> ELSE vs[Len(vs)]

\* C17: a scanned function has a handler exactly if its doc comments give a
\* non-empty method and a non-empty path.
C17_HandlerIffMethodAndPath ==
    \A fn \in ScannedFuncs :
        (\E h \in HandlerSet : h.fn = fn)
            <=> (LastValue(fn.doc, "@Method") # <<>> /\ LastValue(fn.doc, "@Path") # <<>>)

\* the function name without one trailing "Handler", first letter upper-cased
HookName(name) ==
    LET n == IF name # <<>> /\ name[Len(name)] = "Handler"
             THEN SubSeq(name, 1, Len(name) - 1) ELSE name
    IN IF n = <<>> THEN <<>> ELSE <<ToUpperTok(n[1])>> \o Tail(n)

\* C18: the derivation of the handler name returns for every function name,
\* and the name of a handler is the function name without one trailing
\* "Handler", its first letter upper-cased.
C18_HookNameDerived ==
    /\ pc # "panic"
    /\ \A h \in HandlerSet : h.Name = Flat(HookName(h.fn.name))

\* the primitive kinds of the built-in mapping table
\* (the numeric kinds, string and bool)
ScalarKinds ==
    DOMAIN defaultTypeMappings \ {"error", "uuid.UUID", "pgtypes.Timestamptz", "types.Interface"}

\* the primitive kind a field is declared with ("" if it is declared
\* otherwise): an identifier in the scanned source, a basic type in a loaded
\* package
ScalarOf(field) ==
    IF field.decl.k \in {"Ident", "Basic"} /\ field.decl.name \in ScalarKinds
    THEN field.decl.name ELSE ""

\* C19: a field of a primitive kind, of a struct of the scanned package or of
\* a struct resolved from an internal package, has the type the merged
\* mapping table holds for the kind, and is neither optional nor an array.
C19_ScalarMappedByTable ==
    \A n \in DOMAIN registry : \A j \in DOMAIN Entry(n) :
        LET field == Entry(n)[j] IN
        ScalarOf(field) # "" =>
            /\ field.Type = typeMappings[ScalarOf(field)]
            /\ ~field.IsOptional
            /\ ~field.IsArray

\* the files of the directory that parse, and those that do not
GoodFiles == { f \in DOMAIN input.files : ~input.files[f].bad }
BadFiles == { f \in DOMAIN input.files : input.files[f].bad }

\* the struct names and the documented functions of the files that parse
GoodStructs ==
    UNION { { input.files[f].structs[i].name : i \in DOMAIN input.files[f].structs } :
            f \in GoodFiles }
GoodFuncs ==
    UNION { { input.files[f].funcs[i] : i \in DOMAIN input.files[f].funcs } : f \in GoodFiles }

\* C20: with a file that parses and a file that does not, parsePackage does
\* not fail, and what it returns comes from the files that parse: the local
\* types are theirs and so are the handlers.
C20_BadFilesSkipped ==
    (GoodFiles # {} /\ BadFiles # {}) =>
        /\ pc # "error"
        /\ pc = "done" =>
              /\ LocalEntries \subseteq GoodStructs
              /\ \A h \in HandlerSet : h.fn \in GoodFuncs
              /\ \A fn \in GoodFuncs :
                    (\E h \in HandlerSet : h.fn = fn)
                        <=> (LastValue(fn.doc, "@Method") # <<>> /\ LastValue(fn.doc, "@Path") # <<>>)

\* a qualified name, as a field declares it under pointers and slices
QualifiedDecl(field) == Unwrap(field.decl).k = "Sel"

\* the resolution of a qualified field fails: the qualifier is no import, the
\* package does not load, it has no such type, or the type is external and
\* has no mapping
FailsToResolve(field) ==
    LET e == Unwrap(field.decl) IN
    /\ e.k = "Sel"
    /\ \/ e.x \notin DOMAIN importMap
       \/ Flat(importMap[e.x]) \in input.broken
       \/ Flat(importMap[e.x]) \notin DOMAIN GoPackages
       \/ e.sel \notin DOMAIN GoPackages[Flat(importMap[e.x])].scope
       \/ /\ ~HasPrefix(importMap[e.x], ModuleName)
          /\ Flat(<<e.x, ".", e.sel>>) \notin DOMAIN typeMappings

\* the qualified field names a struct of a package of the module that loads
ResolvesInternally(field) ==
    LET e == Unwrap(field.decl) IN
    /\ e.k = "Sel"
    /\ e.x \in DOMAIN importMap
    /\ Flat(importMap[e.x]) \in DOMAIN GoPackages \ input.broken
    /\ Flat(TrimPrefix(TrimPrefixSeq(importMap[e.x], ModuleName), "/")) \in DOMAIN ModuleDirs
    /\ e.sel \in DOMAIN GoPackages[Flat(importMap[e.x])].scope

\* the fields of the scanned structs, as the registry holds them
LocalFields == UNION { { Entry(n)[j] : j \in DOMAIN Entry(n) } : n \in LocalEntries }

\* the resolver is at a qualified field: ResolveQualified can take its step
\* (it has a branch for every outcome)
QualifiedFieldNext ==
    /\ pc = "resolve"
    /\ stack # <<>>
    /\ Top.i <= Len(FieldsOf(heap, Top.t))
    /\ Contains(heap[Top.t.Fields][Top.i].PackageName, ".")

\* parsePackage has returned or can take a step
ReturnedOrRunning ==
    \/ pc = "done"
    \/ QualifiedFieldNext
    \/ ENABLED (\/ ResolveNested \/ ResolveSkip \/ Return
                \/ StartFilter \/ FilterStep \/ FilterEnd
                \/ \E n \in DOMAIN registry : LoopVisit(n))

\* C21: a field whose resolution fails does not end the pass: parsePackage
\* goes on to return without error, and by then every field that can be
\* resolved, of the same struct and of the others, has been resolved.
C21_FailureIsFieldScoped ==
    (pc # "parse" /\ pc # "scan" /\ \E fld \in LocalFields : FailsToResolve(fld)) =>
        /\ pc \notin {"error", "panic", "overflow"}
        /\ ReturnedOrRunning
        /\ pc \in {"filter", "done"} =>
              \A fld \in LocalFields :
                  ResolvesInternally(fld) =>
                      LET e == Unwrap(fld.decl) IN
                      /\ UsedName(fld.Type) = Title(e.x) \o e.sel
                      /\ UsedName(fld.Type) \in DOMAIN registry

\* C21, witness: parsePackage has returned; the first field of A failed and
\* is still unresolved, the second one and the field of B are resolved
C21_Witness_FailedThenResolved ==
    /\ pc = "done"
    /\ "A" \in LocalEntries /\ "B" \in LocalEntries
    /\ Len(Entry("A")) = 2
    /\ FailsToResolve(Entry("A")[1])
    /\ ResolvesInternally(Entry("A")[2]) /\ UsedName(Entry("A")[2].Type) = "AlphaInfo"
    /\ ResolvesInternally(Entry("B")[1]) /\ UsedName(Entry("B")[1].Type) = "AlphaInfo"

\* the packages of the configuration before package i
Before(i) == 1..(i - 1)

FieldTypeNames ==
    UNION { { UsedName(Entry(n)[j].Type) : j \in DOMAIN Entry(n) } : n \in DOMAIN registry }
\* the types of the list refer to themselves or to each other
CyclicTypes ==
    \E n \in DOMAIN registry, m \in DOMAIN registry :
        /\ \E j \in DOMAIN Entry(n) : UsedName(Entry(n)[j].Type) = UsedName(<<m>>)
        /\ \E j \in DOMAIN Entry(m) : UsedName(Entry(m)[j].Type) = UsedName(<<n>>)
\* an iteration of the loop expands a name that is not in the used set, which
\* then is, or drops a name that is
ExpandsNewOrDrops ==
    pc = "filter" /\ pc' = "filter" =>
        \/ Head(queue) \notin usedTypeSet /\ usedTypeSet' = usedTypeSet \cup {Head(queue)}
        \/ Head(queue) \in usedTypeSet /\ usedTypeSet' = usedTypeSet /\ queue' = Tail(queue)

\* C23, as stated: a type name is enqueued at most once during the
\* traversal: the queue never holds a name twice, nor a name that has been
\* taken from it before.
C23_EnqueuedAtMostOnce ==
    pc = "filter" =>
        /\ \A i \in DOMAIN queue, j \in DOMAIN queue : i # j => queue[i] # queue[j]
        /\ \A i \in DOMAIN queue : queue[i] \notin usedTypeSet

\* C23, amended: filterUsedTypes terminates for every list of types and
\* handlers, cyclic ones included, and a type name is expanded at most once:
\* an iteration expands only a name that is not yet in the used set, and the
\* used set holds only names of handlers and of field types.
C23_ExpandedAtMostOnce ==
    /\ [][ExpandsNewOrDrops]_vars
    /\ [](usedTypeSet \subseteq
             FieldTypeNames \cup { HandlerQueue(handlers)[i] : i \in DOMAIN HandlerQueue(handlers) })
    /\ (pc = "filter" ~> pc = "done")

\* C23, witness: filterUsedTypes has returned types that refer to each other,
\* both in the result
C23_Witness_CycleFiltered ==
    /\ pc = "done"
    /\ CyclicTypes
    /\ \E n \in usedTypes, m \in usedTypes :
          /\ n # m
          /\ \E j \in DOMAIN Entry(n) : UsedName(Entry(n)[j].Type) = UsedName(<<m>>)
          /\ \E j \in DOMAIN Entry(m) : UsedName(Entry(m)[j].Type) = UsedName(<<n>>)

\* the import path is the path of the module or lies beneath it: the module
\* path is followed by nothing or by a "/"
OwnedByModule(path) == path = ModuleName \/ HasPrefix(path, ModuleName \o <<"/">>)

\* C24: an import path of the scanned package is classified internal if and
\* only if it is owned by the module; a path of another module that begins
\* with the text of the module path is classified external.
C24_InternalIffOwned ==
    pc \notin {"parse", "scan"} =>
        \A q \in DOMAIN importMap :
            ~isExternalPackage(importMap[q], ModuleName) <=> OwnedByModule(importMap[q])

RECURSIVE ElemType(_)
\* the type a field of an internal struct is a pointer to or a slice of
ElemType(t) == IF t.k \in {"Pointer", "Slice"} THEN ElemType(t.e) ELSE t

\* t is a named struct type of a package of the module
ModuleStruct(t) ==
    /\ t.k = "Named"
    /\ OwnedByModule(t.path)
    /\ Flat(t.path) \in DOMAIN GoPackages
    /\ t.name \in DOMAIN GoPackages[Flat(t.path)].scope
    /\ GoPackages[Flat(t.path)].scope[t.name].underlying.k = "Struct"

\* C25: a field of an internally resolved struct whose type is a named struct
\* of the module refers to a registry entry that was built from that struct;
\* it is not left as "unknown".
C25_InternalFieldsResolved ==
    pc = "done" =>
        \A n \in InternalEntries : \A j \in DOMAIN Entry(n) :
            LET t == ElemType(Entry(n)[j].decl)
                ref == UsedName(Entry(n)[j].Type)
            IN ModuleStruct(t) =>
                 /\ ref # "unknown"
                 /\ ref \in InternalEntries
                 /\ registry[ref].origin.path = Flat(t.path)
                 /\ registry[ref].origin.name = t.name

\* the declared type of a field is a pointer: *T in the scanned package, a
\* types.Pointer in an internal package
DeclaredPointer(d) == d.k \in {"Star", "Pointer"}
\* the declared type of a field is a slice
DeclaredSlice(d) == d.k \in {"Array", "Slice"}

\* C26: in every field of every registry entry, of the scanned package or of
\* an internal package, IsOptional says that the declared type is a pointer
\* and IsArray says that it is a slice.
C26_FlagsFollowDeclaredType ==
    pc \in {"resolve", "filter", "done"} =>
        \A n \in DOMAIN registry : \A j \in DOMAIN Entry(n) :
            /\ Entry(n)[j].IsOptional <=> DeclaredPointer(Entry(n)[j].decl)
            /\ Entry(n)[j].IsArray <=> DeclaredSlice(Entry(n)[j].decl)

\* this step is a call of parseInternalType that returned a type: its fields
\* are a new array and its entry is stored in the registry
ParsedInternally == pc = "resolve" /\ pc' = "resolve" /\ Len(heap') = Len(heap) + 1
\* the entry that step stores
StoredEntry == CHOOSE n \in DOMAIN registry' : registry'[n].Fields = Len(heap')

\* C27: parseInternalType is called at most once for a qualified name: when
\* it is called, the registry holds no entry that an earlier call for the
\* same qualifier and type name has stored.
C27_InternalTypeParsedOnce ==
    [][ParsedInternally =>
          ~\E n \in InternalEntries :
               /\ n = StoredEntry
               /\ registry[n].FullName = registry'[StoredEntry].FullName
               /\ registry[n].origin = registry'[StoredEntry].origin]_vars

\* C28: a pkg.Type field of a struct declared in file F that was resolved to
\* an internal type was resolved through the import path F declares for pkg:
\* the entry the field refers to was built from the package of that path.
C28_ResolvedThroughOwnImport ==
    pc = "done" =>
        \A n \in LocalEntries : \A j \in DOMAIN Entry(n) :
            LET e == Unwrap(Entry(n)[j].decl)
                own == OwnImports(registry[n].origin.file)
                ref == UsedName(Entry(n)[j].Type)
            IN (e.k = "Sel" /\ e.x \in DOMAIN own /\ ref \in InternalEntries) =>
                   registry[ref].origin.path = Flat(own[e.x])

\* the fields of the internal entry n as parseTypeObject returns them
AsParsed(n) ==
    parseTypeObject(GoPackages[registry[n].origin.path].scope[registry[n].origin.name],
                    typeMappings).Fields
\* the result for the order in which the resolution loop visits no entry
\* that was added during the loop: the internal entries stay as parsed
SameAsUnvisited ==
    \A n \in usedTypes \cap InternalEntries :
        \A j \in DOMAIN Entry(n) : Entry(n)[j].Type = AsParsed(n)[j].Type

RECURSIVE ImportsInOrder(_)
\* the import map for the order in which the files are inspected first to last
ImportsInOrder(k) ==
    IF k = 0 THEN EmptyMap ELSE AddImports(ImportsInOrder(k - 1), input.files[k].imports)
\* the result for that order: a field resolved to an internal type refers to
\* the type of the package the last file binds its qualifier to
SameAsFileOrder ==
    \A n \in usedTypes \cap LocalEntries : \A j \in DOMAIN Entry(n) :
        LET e == Unwrap(Entry(n)[j].decl)
            inOrder == ImportsInOrder(Len(input.files))
            ref == UsedName(Entry(n)[j].Type)
        IN (e.k = "Sel" /\ e.x \in DOMAIN inOrder /\ ref \in InternalEntries) =>
               registry[ref].origin.path = Flat(inOrder[e.x])

\* C29: the types parsePackage returns and the resolved type of each of their
\* fields do not depend on the order of iteration: they are those of the run
\* that inspects the files first to last and those of the run whose
\* resolution loop visits none of the entries added during the loop.
C29_ResultIndependentOfOrder == pc = "done" => SameAsUnvisited /\ SameAsFileOrder

RECURSIVE DeclaredNames(_)
\* the names the field declarations of a struct declare, in order
DeclaredNames(fds) ==
    IF fds = <<>> THEN <<>> ELSE Head(fds).names \o DeclaredNames(Tail(fds))
\* the declaration the entry n of the scanned package was parsed from
DeclOf(n) ==
    CHOOSE d \in AllDecls : d.name = registry[n].origin.name
\* no field of the declaration has a json tag: its fields keep their Go names
Untagged(d) == \A j \in DOMAIN d.fields : d.fields[j].tag = ""

\* C30: the entry of a scanned struct has one field per declared field name,
\* in declaration order, each name of a declaration of several names
\* included; only the fields without a name are left out.
C30_OneFieldPerName ==
    pc \in {"resolve", "filter", "done"} =>
        \A n \in LocalEntries :
            Untagged(DeclOf(n)) =>
                [j \in DOMAIN Entry(n) |-> Entry(n)[j].Name] = DeclaredNames(DeclOf(n).fields)


====
